---- MODULE Spec2Model ----
(***************************************************************************)
(* Model of the JPEG decode-to-framebuffer pipeline of the e-paper reader  *)
(* firmware (lib/Epub/Epub/converters/JpegToFramebufferConverter.cpp).     *)
(*                                                                         *)
(* Spec      : one call of JpegToFramebufferConverter::decodeToFramebuffer *)
(*             with its engine callbacks, step by step.                    *)
(* SpecScale : chooseJpegScale applied to target scales given as exact     *)
(*             fractions (the thresholds of the coarse decimation).        *)
(***************************************************************************)
EXTENDS Integers, Sequences, FiniteSets, TLC

(***************************************************************************)
(* Program constants.                                                      *)
(***************************************************************************)
JPEG_DECODER_APPROX_SIZE == 20480
HEADROOM == 16384
MIN_FREE_HEAP_FOR_JPEG == JPEG_DECODER_APPROX_SIZE + HEADROOM
FP_ONE == 65536
FP_MASK == FP_ONE - 1
\* JPEGDEC scale options as passed to decode(); "NONE" is the option 0.
JPEG_SCALE_NONE == "NONE"
JPEG_SCALE_HALF == "JPEG_SCALE_HALF"
JPEG_SCALE_QUARTER == "JPEG_SCALE_QUARTER"
JPEG_SCALE_EIGHTH == "JPEG_SCALE_EIGHTH"
\* validateImageDimensions' limit on width * height.
MAX_SOURCE_PIXELS == 3145728

(***************************************************************************)
(* Bounds of the model.                                                    *)
(***************************************************************************)
\* small sources: every width and height in 1..MaxSmallDim
MaxSmallDim == 4
\* the renderer's screen, kept small so that a block draws few pixels
ScreenW == 5
ScreenH == 4
\* rows per block the engine delivers
BlockRows == 2
\* columns of blocks per strip
BlockCols == 2

(***************************************************************************)
(* IEEE-754 binary32 arithmetic, as far as decodeToFramebuffer uses it.    *)
(* A positive float is [m, s] with value m / 2^s and 2^23 <= m < 2^24.     *)
(***************************************************************************)
RECURSIVE Pow2(_)
Pow2(n) == IF n <= 0 THEN 1 ELSE 2 * Pow2(n - 1)

RECURSIVE BitLen(_)
BitLen(h) == IF h <= 0 THEN 0 ELSE 1 + BitLen(h \div 2)

RECURSIVE NormUp(_, _, _)
NormUp(a, b, k) == IF a >= b THEN <<a, b, k>> ELSE NormUp(2 * a, b, k + 1)

RECURSIVE NormDown(_, _, _)
NormDown(a, b, k) == IF a < 2 * b THEN <<a, b, k>> ELSE NormDown(a, 2 * b, k - 1)

RECURSIVE DivBits(_, _, _, _)
DivBits(r, b, m, n) ==
  IF n = 0 THEN <<m, r>>
  ELSE IF 2 * r >= b THEN DivBits(2 * r - b, b, 2 * m + 1, n - 1)
       ELSE DivBits(2 * r, b, 2 * m, n - 1)

F32One == [m |-> Pow2(23), s |-> 23]

\* (float)a / b for positive integers below 2^24: the correctly rounded
\* (nearest, ties to even) quotient.
F32Div(a, b) ==
  LET u  == NormUp(a, b, 0)
      d  == NormDown(u[1], u[2], u[3])
      q  == DivBits(d[1] - d[2], d[2], 1, 23)
      up == (2 * q[2] > d[2]) \/ (2 * q[2] = d[2] /\ q[1] % 2 = 1)
      m  == IF up THEN q[1] + 1 ELSE q[1]
      s  == 23 + d[3]
  IN IF m = Pow2(24) THEN [m |-> Pow2(23), s |-> s - 1] ELSE [m |-> m, s |-> s]

\* f < g for two normalised floats
F32Less(f, g) == f.s > g.s \/ (f.s = g.s /\ f.m < g.m)

\* f <= 2^-k (k >= 0), the comparisons of chooseJpegScale
F32LeqPow2Neg(f, k) ==
  IF f.s - k >= 24 THEN TRUE
  ELSE IF f.s - k < 0 THEN FALSE
  ELSE f.m <= Pow2(f.s - k)

\* (int)(n * f) for an integer 0 < n < 2^11: the float product, rounded to
\* 24 significant bits, then truncated.
F32MulTrunc(n, f) ==
  LET mh == f.m \div 4096
      ml == f.m % 4096
      hi == n * mh + (n * ml) \div 4096
      lo == (n * ml) % 4096
      L  == BitLen(hi)
      d  == IF L <= 12 THEN 0 ELSE L - 12
      k0 == hi * (4096 \div Pow2(d)) + lo \div Pow2(d)
      rem == lo % Pow2(d)
      half == Pow2(d - 1)
      up == d > 0 /\ (rem > half \/ (rem = half /\ k0 % 2 = 1))
      kept == IF up THEN k0 + 1 ELSE k0
  IN IF f.s >= d
     THEN (IF f.s - d >= 26 THEN 0 ELSE kept \div Pow2(f.s - d))
     ELSE kept * Pow2(d - f.s)

(***************************************************************************)
(* Scale Decision Logic.                                                   *)
(***************************************************************************)
\* f < 2^-k
F32LessPow2Neg(f, k) == F32LeqPow2Neg(f, k) /\ ~(f.m = Pow2(23) /\ f.s = 23 + k)

\* chooseJpegScale with the thresholds exclusive (< for <=)
ChooseJpegScale_ExclusiveLow(targetScale) ==
  IF F32LessPow2Neg(targetScale, 3) THEN [denom |-> 8, option |-> JPEG_SCALE_EIGHTH]
  ELSE IF F32LessPow2Neg(targetScale, 2) THEN [denom |-> 4, option |-> JPEG_SCALE_QUARTER]
  ELSE IF F32LessPow2Neg(targetScale, 1) THEN [denom |-> 2, option |-> JPEG_SCALE_HALF]
  ELSE [denom |-> 1, option |-> JPEG_SCALE_NONE]

\* chooseJpegScale: the denominator and the engine option for a target scale
ChooseJpegScale(targetScale) ==
  IF F32LeqPow2Neg(targetScale, 3) THEN [denom |-> 8, option |-> JPEG_SCALE_EIGHTH]
  ELSE IF F32LeqPow2Neg(targetScale, 2) THEN [denom |-> 4, option |-> JPEG_SCALE_QUARTER]
  ELSE IF F32LeqPow2Neg(targetScale, 1) THEN [denom |-> 2, option |-> JPEG_SCALE_HALF]
  ELSE [denom |-> 1, option |-> JPEG_SCALE_NONE]

\* the decimation the engine applies for an option (JPEGDEC's decode)
OptionDenominator(option) ==
  CASE option = JPEG_SCALE_EIGHTH -> 8
    [] option = JPEG_SCALE_QUARTER -> 4
    [] option = JPEG_SCALE_HALF -> 2
    [] OTHER -> 1

\* validateImageDimensions(width, height, "JPEG")
ValidateImageDimensions(w, h) == w * h <= MAX_SOURCE_PIXELS

\* useExactDimensions branch taken
ExactMode(cfg) == cfg.useExactDimensions /\ cfg.maxWidth > 0 /\ cfg.maxHeight > 0

\* scaleX / scaleY of the fit branch
FitScaleX(cfg, sw) ==
  IF cfg.maxWidth > 0 /\ sw > cfg.maxWidth THEN F32Div(cfg.maxWidth, sw) ELSE F32One
FitScaleY(cfg, sh) ==
  IF cfg.maxHeight > 0 /\ sh > cfg.maxHeight THEN F32Div(cfg.maxHeight, sh) ELSE F32One

\* the target scale taking the larger of the two ratios
TargetScale_LargerRatio(cfg, sw, sh) ==
  IF ExactMode(cfg) THEN F32Div(cfg.maxWidth, sw)
  ELSE LET sx == FitScaleX(cfg, sw)
           sy == FitScaleY(cfg, sh)
       IN IF F32Less(sx, sy) THEN sy ELSE sx

\* targetScale, destWidth, destHeight of decodeToFramebuffer
TargetScale(cfg, sw, sh) ==
  IF ExactMode(cfg) THEN F32Div(cfg.maxWidth, sw)
  ELSE LET sx == FitScaleX(cfg, sw)
           sy == FitScaleY(cfg, sh)
           t  == IF F32Less(sx, sy) THEN sx ELSE sy
       IN IF F32Less(F32One, t) THEN F32One ELSE t

DestWidth(cfg, sw, sh) ==
  IF ExactMode(cfg) THEN cfg.maxWidth ELSE F32MulTrunc(sw, TargetScale(cfg, sw, sh))

DestHeight(cfg, sw, sh) ==
  IF ExactMode(cfg) THEN cfg.maxHeight ELSE F32MulTrunc(sh, TargetScale(cfg, sw, sh))

\* the coarse scale chosen from the target scale for every source
JpegScale_IgnoresProgressive(cfg, sw, sh, progressive) ==
  ChooseJpegScale(TargetScale(cfg, sw, sh))

\* jpegScaleDenom / jpegScaleOption
JpegScale(cfg, sw, sh, progressive) ==
  IF progressive THEN [denom |-> 8, option |-> JPEG_SCALE_EIGHTH]
  ELSE ChooseJpegScale(TargetScale(cfg, sw, sh))

\* (n + denom - 1) / denom
CeilDiv(n, denom) == (n + denom - 1) \div denom

(***************************************************************************)
(* The block callback jpegDrawCallback.                                    *)
(* A block is [x, y, iWidth, iWidthUsed, iHeight]; its buffer holds        *)
(* iWidth * iHeight samples, the valid ones in columns 0..iWidthUsed-1.    *)
(* c is the JpegContext, cfg the RenderConfig.                             *)
(***************************************************************************)
\* the decoded image: the 8-bit sample at scaled-source column sx, row sy
Sample(seed, sx, sy) == (255 - ((sx * 85 + sy * 43 + seed * 128) % 256)) % 256

\* pixels[idx] of the block buffer; a read outside the buffer or of a padding
\* column yields the value `garbage`
ReadPixel(seed, blk, idx, garbage) ==
  IF idx < 0 \/ idx >= blk.iWidth * blk.iHeight THEN garbage
  ELSE IF idx % blk.iWidth >= blk.iWidthUsed THEN garbage
  ELSE Sample(seed, blk.x + (idx % blk.iWidth), blk.y + (idx \div blk.iWidth))

\* does pixels[idx] lie inside the valid samples of the block
ValidRead(blk, idx) ==
  idx >= 0 /\ idx < blk.iWidth * blk.iHeight /\ idx % blk.iWidth < blk.iWidthUsed

\* applyBayerDither4Level(gray, x, y)
Bayer4x4 == << <<0, 8, 2, 10>>, <<12, 4, 14, 6>>, <<3, 11, 1, 9>>, <<15, 7, 13, 5>> >>
ApplyBayerDither4Level(gray, x, y) ==
  LET a0 == gray + (Bayer4x4[(y % 4) + 1][(x % 4) + 1] - 8) * 5
      a  == IF a0 < 0 THEN 0 ELSE IF a0 > 255 THEN 255 ELSE a0
  IN IF a < 64 THEN 0 ELSE IF a < 128 THEN 1 ELSE IF a < 192 THEN 2 ELSE 3

\* the 4-level value drawn for an 8-bit sample
Quantize(gray, useDithering, outX, outY) ==
  IF useDithering THEN ApplyBayerDither4Level(gray, outX, outY)
  ELSE IF gray \div 85 > 3 THEN 3 ELSE gray \div 85

\* the strategy selection with the unity factor sent to the bilinear path
PathOf_BilinearAtUnity(fineScaleFP) ==
  IF fineScaleFP >= FP_ONE THEN "bilinear" ELSE "nearest"

\* the strategy the callback selects by comparing fineScaleFP with FP_ONE
PathOf(fineScaleFP) ==
  IF fineScaleFP = FP_ONE THEN "identity"
  ELSE IF fineScaleFP > FP_ONE THEN "bilinear"
  ELSE "nearest"

Min(a, b) == IF a < b THEN a ELSE b
Max(a, b) == IF a > b THEN a ELSE b

\* the destination range with the block's end edges rounded up
DstRange_EndRoundedUp(c, cfg, blk) ==
  LET srcYEnd == blk.y + blk.iHeight
      srcXEnd == blk.x + blk.iWidthUsed
      yS0 == (blk.y * c.fineScaleFP) \div FP_ONE
      yE0 == IF srcYEnd >= c.scaledSrcHeight THEN c.dstHeight
             ELSE (srcYEnd * c.fineScaleFP + FP_MASK) \div FP_ONE
      xS0 == (blk.x * c.fineScaleFP) \div FP_ONE
      xE0 == IF srcXEnd >= c.scaledSrcWidth THEN c.dstWidth
             ELSE (srcXEnd * c.fineScaleFP + FP_MASK) \div FP_ONE
      clampYMax == Min(c.dstHeight, c.screenHeight - cfg.y)
      clampXMax == Min(c.dstWidth, c.screenWidth - cfg.x)
  IN [yS |-> Max(yS0, -cfg.y), yE |-> Min(yE0, clampYMax),
      xS |-> Max(xS0, -cfg.x), xE |-> Min(xE0, clampXMax)]

\* the destination range without the clamp to the screen
DstRange_Unclamped(c, cfg, blk) ==
  LET srcYEnd == blk.y + blk.iHeight
      srcXEnd == blk.x + blk.iWidthUsed
  IN [yS |-> (blk.y * c.fineScaleFP) \div FP_ONE,
      yE |-> IF srcYEnd >= c.scaledSrcHeight THEN c.dstHeight
             ELSE (srcYEnd * c.fineScaleFP) \div FP_ONE,
      xS |-> (blk.x * c.fineScaleFP) \div FP_ONE,
      xE |-> IF srcXEnd >= c.scaledSrcWidth THEN c.dstWidth
             ELSE (srcXEnd * c.fineScaleFP) \div FP_ONE]

\* destination range [yS, yE) x [xS, xE) of a block, clamped to the screen
DstRange(c, cfg, blk) ==
  LET srcYEnd == blk.y + blk.iHeight
      srcXEnd == blk.x + blk.iWidthUsed
      yS0 == (blk.y * c.fineScaleFP) \div FP_ONE
      yE0 == IF srcYEnd >= c.scaledSrcHeight THEN c.dstHeight
             ELSE (srcYEnd * c.fineScaleFP) \div FP_ONE
      xS0 == (blk.x * c.fineScaleFP) \div FP_ONE
      xE0 == IF srcXEnd >= c.scaledSrcWidth THEN c.dstWidth
             ELSE (srcXEnd * c.fineScaleFP) \div FP_ONE
      clampYMax == Min(c.dstHeight, c.screenHeight - cfg.y)
      clampXMax == Min(c.dstWidth, c.screenWidth - cfg.x)
  IN [yS |-> Max(yS0, -cfg.y), yE |-> Min(yE0, clampYMax),
      xS |-> Max(xS0, -cfg.x), xE |-> Min(xE0, clampXMax)]

\* does the callback return before the pixel loops
BlockSkipped(c, cfg, blk) ==
  \/ blk.iWidth <= 0 \/ blk.iHeight <= 0 \/ blk.iWidthUsed <= 0
  \/ DstRange(c, cfg, blk).yS >= DstRange(c, cfg, blk).yE
  \/ DstRange(c, cfg, blk).xS >= DstRange(c, cfg, blk).xE

\* safeXStart / safeXEnd of the bilinear path
SafeX(c, cfg, blk) ==
  LET r  == DstRange(c, cfg, blk)
      s0 == (blk.x * c.fineScaleFP + FP_MASK) \div FP_ONE
      e0 == ((blk.x + blk.iWidthUsed - 1) * c.fineScaleFP) \div FP_ONE
      s1 == Max(s0, r.xS)
      e1 == Min(e0, r.xE)
  IN [start |-> s1, end |-> IF s1 > e1 THEN s1 ELSE e1]

\* the buffer indices read for destination (dstX, dstY), per strategy:
\* <<row0/lx0, row0/lx1, row1/lx0, row1/lx1>> for bilinear, one index otherwise
IdentityIndex(blk, dstX, dstY) == (dstY - blk.y) * blk.iWidth + (dstX - blk.x)

\* the source column of the nearest path without its clamps
NearestLx_Unclamped(c, blk, dstX) == ((dstX * c.invScaleFP) \div FP_ONE) - blk.x

NearestLy(c, blk, dstY) ==
  LET ly == ((dstY * c.invScaleFP) \div FP_ONE) - blk.y
  IN IF ly < 0 THEN 0 ELSE IF ly >= blk.iHeight THEN blk.iHeight - 1 ELSE ly

NearestLx(c, blk, dstX) ==
  LET lx == ((dstX * c.invScaleFP) \div FP_ONE) - blk.x
  IN IF lx < 0 THEN 0 ELSE IF lx >= blk.iWidthUsed THEN blk.iWidthUsed - 1 ELSE lx

NearestIndex(c, blk, dstX, dstY) ==
  NearestLy(c, blk, dstY) * blk.iWidth + NearestLx(c, blk, dstX)

\* ly0 and ly1 of the bilinear path, after their clamps
BilinearLy(c, blk, dstY) ==
  LET raw == ((dstY * c.invScaleFP) \div FP_ONE) - blk.y
      a   == IF raw < 0 THEN 0 ELSE raw
      ly0 == IF a >= blk.iHeight THEN blk.iHeight - 1 ELSE a
      ly1 == IF raw + 1 >= blk.iHeight THEN blk.iHeight - 1 ELSE raw + 1
  IN <<ly0, ly1>>

\* lx0 and lx1 of the bilinear path: clamped on both sides in the left edge,
\* not clamped in the interior, clamped above only in the right edge
BilinearLx(c, cfg, blk, dstX) ==
  LET raw  == ((dstX * c.invScaleFP) \div FP_ONE) - blk.x
      safe == SafeX(c, cfg, blk)
      hi(v) == IF v >= blk.iWidthUsed THEN blk.iWidthUsed - 1 ELSE v
      lo(v) == IF v < 0 THEN 0 ELSE v
  IN IF dstX < safe.start THEN <<hi(lo(raw)), hi(lo(raw + 1))>>
     ELSE IF dstX < safe.end THEN <<raw, raw + 1>>
     ELSE <<hi(raw), hi(raw + 1)>>

BilinearIndices(c, cfg, blk, dstX, dstY) ==
  LET ly == BilinearLy(c, blk, dstY)
      lx == BilinearLx(c, cfg, blk, dstX)
  IN << ly[1] * blk.iWidth + lx[1], ly[1] * blk.iWidth + lx[2],
        ly[2] * blk.iWidth + lx[1], ly[2] * blk.iWidth + lx[2] >>

BilinearGray(seed, c, cfg, blk, dstX, dstY, garbage) ==
  LET ix  == BilinearIndices(c, cfg, blk, dstX, dstY)
      fx  == (dstX * c.invScaleFP) % FP_ONE
      fy  == (dstY * c.invScaleFP) % FP_ONE
      p(i) == ReadPixel(seed, blk, ix[i], garbage)
      top == (p(1) * (FP_ONE - fx) + p(2) * fx) \div FP_ONE
      bot == (p(3) * (FP_ONE - fx) + p(4) * fx) \div FP_ONE
  IN ((top * (FP_ONE - fy) + bot * fy) \div FP_ONE) % 256

\* the buffer indices the callback reads for one destination pixel
ReadIndices(c, cfg, blk, dstX, dstY) ==
  CASE PathOf(c.fineScaleFP) = "identity" -> {IdentityIndex(blk, dstX, dstY)}
    [] PathOf(c.fineScaleFP) = "nearest" -> {NearestIndex(c, blk, dstX, dstY)}
    [] OTHER -> {BilinearIndices(c, cfg, blk, dstX, dstY)[i] : i \in 1..4}

\* the 8-bit sample computed for one destination pixel
GrayAt(seed, c, cfg, blk, dstX, dstY, garbage) ==
  CASE PathOf(c.fineScaleFP) = "identity" ->
         ReadPixel(seed, blk, IdentityIndex(blk, dstX, dstY), garbage)
    [] PathOf(c.fineScaleFP) = "nearest" ->
         ReadPixel(seed, blk, NearestIndex(c, blk, dstX, dstY), garbage)
    [] OTHER -> BilinearGray(seed, c, cfg, blk, dstX, dstY, garbage)

\* the destination pixels the callback visits for a block
BlockDst(c, cfg, blk) ==
  IF BlockSkipped(c, cfg, blk) THEN {}
  ELSE LET r == DstRange(c, cfg, blk)
       IN (r.xS .. (r.xE - 1)) \X (r.yS .. (r.yE - 1))

\* does the callback read outside the valid samples of the block
BlockReadsInvalid(c, cfg, blk) ==
  \E d \in BlockDst(c, cfg, blk) :
    \E i \in ReadIndices(c, cfg, blk, d[1], d[2]) : ~ValidRead(blk, i)

\* drawPixelWithRenderMode calls of one callback: <<outX, outY, level>>
BlockWrites(seed, c, cfg, blk, garbage) ==
  { << cfg.x + d[1], cfg.y + d[2],
       Quantize(GrayAt(seed, c, cfg, blk, d[1], d[2], garbage),
                cfg.useDithering, cfg.x + d[1], cfg.y + d[2]) >>
    : d \in BlockDst(c, cfg, blk) }

\* the blocks the engine delivers for a scaled source of ssw x ssh samples:
\* strips of BlockRows rows, top to bottom, each cut into BlockCols columns,
\* the buffer stride rounded up to an even number of samples
StripCount(ssh) == CeilDiv(ssh, BlockRows)
ColWidth(ssw) == CeilDiv(ssw, BlockCols)
ColCount(ssw) == CeilDiv(ssw, ColWidth(ssw))
BlockCount(ssw, ssh) == StripCount(ssh) * ColCount(ssw)
BlockAt(ssw, ssh, i) ==
  LET strip == i \div ColCount(ssw)
      col   == i % ColCount(ssw)
      bx    == col * ColWidth(ssw)
      by    == strip * BlockRows
      used  == Min(ColWidth(ssw), ssw - bx)
  IN [x |-> bx, y |-> by, iWidth |-> 2 * CeilDiv(used, 2), iWidthUsed |-> used,
      iHeight |-> Min(BlockRows, ssh - by)]

(***************************************************************************)
(* State of one decodeToFramebuffer call.                                  *)
(***************************************************************************)
VARIABLES
  pc,          \* position in decodeToFramebuffer
  config,      \* the caller's RenderConfig
  image,       \* the file: [width, height, progressive, seed]
  freeHeap,    \* ESP.getFreeHeap() at the call
  result,      \* "none", "true" or "false": the value returned
  jpeg,        \* the JPEGDEC instance: [news, live, open, closes, pixelType,
               \* userPointer, opened, decodeRc]
  file,        \* the FsFile of jpegOpen: [opens, live]
  ctx,         \* the JpegContext
  jpegScale,   \* jpegScaleDenom and jpegScaleOption: [denom, option]
  nextBlock,   \* index of the next block the engine delivers
  sink,        \* drawPixelWithRenderMode calls: <<outX, outY, level, block>>
  cache,       \* the PixelCache: [allocCalls, setPixels, writes]
  invalidRead, \* a callback read outside the valid samples of its block
  paths,       \* the strategies the callbacks of this call selected
  scaleIn,     \* SpecScale: the target scale num / den given to chooseJpegScale
  scaleOut     \* SpecScale: what chooseJpegScale returned and set

decodeVars == <<pc, config, image, freeHeap, result, jpeg, file, ctx, jpegScale,
                nextBlock, sink, cache, invalidRead, paths, scaleIn, scaleOut>>

\* the engine's file callbacks jpegRead / jpegSeek
VARIABLES
  pFile,       \* the engine's JPEGFILE: [fHandle, iPos]
  fsPos,       \* the position of the FsFile behind fHandle
  fsSize,      \* the size of that file
  ioRet        \* the last callback and what it returned: [op, rc]

ioVars == <<pFile, fsPos, fsSize, ioRet>>

\* PageTurnEtaEstimator
VARIABLES
  est,         \* the estimator's fields
  nowMs,       \* the millisecond clock, 32 bits as [hi, lo] 16-bit halves
  history,     \* the onPageRendered calls since construction or reset()
  etaOut       \* the last estimateMinutesToEnd call: [remainingPages, minutes]

etaVars == <<est, nowMs, history, etaOut>>

\* FileSelectionScreen and its display task
VARIABLES
  mainPc,            \* position of the main task in onEnter / handleInput / onExit
  taskPc,            \* position of the display task in displayTaskLoop
  renderingMutex,    \* "null", "free", or the task holding it: "main", "display"
  displayTaskHandle, \* "null" or "task"
  updateRequired,
  files,             \* the entries shown, each a sequence of characters
  selectorIndex,
  basepath,          \* a sequence of characters
  sdCard,            \* the card: the listing of each directory path
  loadI,             \* loadFiles: the next directory entry openNextFile yields
  renderI,           \* render: the loop index i
  screenLog          \* what has happened: [deletedAt, renderedWhileExitWaits,
                     \* readDuringLoad, modZero, selected]

screenVars == <<mainPc, taskPc, renderingMutex, displayTaskHandle, updateRequired,
                files, selectorIndex, basepath, sdCard, loadI, renderI, screenLog>>

vars == <<decodeVars, ioVars, etaVars, screenVars>>

\* inputs of the model
CfgXs == {-1, 0, 2}
CfgYs == {-1, 0}
MaxWidths == {0, 1, 3, 6}
MaxHeights == {0, 2}
CachePaths == {"", "/cache/img.pxc"}
Configs ==
  [x : CfgXs, y : CfgYs, maxWidth : MaxWidths, maxHeight : MaxHeights,
   useExactDimensions : BOOLEAN, useDithering : BOOLEAN, cachePath : CachePaths]
FreeHeaps == {MIN_FREE_HEAP_FOR_JPEG - 1, MIN_FREE_HEAP_FOR_JPEG}
SmallImages ==
  [width : 1..MaxSmallDim, height : 1..MaxSmallDim, progressive : BOOLEAN, seed : {0}]
OddImages ==
  { [width |-> 0, height |-> 3, progressive |-> FALSE, seed |-> 0],
    [width |-> 3, height |-> 0, progressive |-> FALSE, seed |-> 0],
    [width |-> -1, height |-> 2, progressive |-> TRUE, seed |-> 0],
    [width |-> 2048, height |-> 2048, progressive |-> FALSE, seed |-> 0],
    [width |-> 37, height |-> 4, progressive |-> FALSE, seed |-> 0],
    [width |-> 41, height |-> 3, progressive |-> FALSE, seed |-> 0],
    [width |-> 17, height |-> 9, progressive |-> TRUE, seed |-> 0] }
Images == SmallImages \cup OddImages
\* what the 64-bit division by destWidth = 0 may leave in invScaleFP
DivZeroValues == {-1, 0}
\* what a read outside the valid samples may yield
GarbageValues == {0, 255}

Ctx0 ==
  [screenWidth |-> 0, screenHeight |-> 0, scaledSrcWidth |-> 0, scaledSrcHeight |-> 0,
   dstWidth |-> 0, dstHeight |-> 0, fineScaleFP |-> FP_ONE, invScaleFP |-> FP_ONE,
   caching |-> FALSE]
Jpeg0 ==
  [news |-> 0, live |-> FALSE, open |-> FALSE, closes |-> 0, pixelType |-> "default",
   userPointer |-> FALSE, opened |-> FALSE, decodeRc |-> "none"]

\* the file callbacks before any call, on no file
IoIdle ==
  /\ pFile = [fHandle |-> FALSE, iPos |-> 0]
  /\ fsPos = 0
  /\ fsSize = 0
  /\ ioRet = [op |-> "none", rc |-> 0]

\* PageTurnEtaEstimator as constructed
Est0 ==
  [hasCurrentPageKey |-> FALSE, currentSectionIndex |-> -1, currentPageIndex |-> -1,
   lastPageTimestampMs |-> [hi |-> 0, lo |-> 0], emaInitialized |-> FALSE,
   emaPageTurnIntervalMs |-> [m |-> 0, s |-> 0], validTurnCount |-> 0]

EtaIdle ==
  /\ est = Est0
  /\ nowMs = [hi |-> 0, lo |-> 0]
  /\ history = << >>
  /\ etaOut = [remainingPages |-> 0, minutes |-> 0, at |-> -1]

\* FileSelectionScreen as constructed, before onEnter
ScreenLog0 ==
  [deletedAt |-> "none", renderedWhileExitWaits |-> FALSE, readDuringLoad |-> FALSE,
   modZero |-> FALSE, selected |-> << >>]

Screen0 ==
  /\ mainPc = [at |-> "Constructed", in |-> "none"]
  /\ taskPc = "NotCreated"
  /\ renderingMutex = "null"
  /\ displayTaskHandle = "null"
  /\ updateRequired = FALSE
  /\ files = << >>
  /\ selectorIndex = 0
  /\ basepath = << >>
  /\ loadI = 0
  /\ renderI = 0
  /\ screenLog = ScreenLog0

ScreenIdle ==
  /\ Screen0
  /\ sdCard = << >>

\* the state before the call, but for its inputs
CallState0 ==
  /\ result = "none"
  /\ jpeg = Jpeg0
  /\ file = [opens |-> 0, live |-> FALSE]
  /\ ctx = Ctx0
  /\ jpegScale = [denom |-> 0, option |-> "unset"]
  /\ nextBlock = 0
  /\ sink = {}
  /\ cache = [allocCalls |-> 0, setPixels |-> {}, writes |-> 0]
  /\ invalidRead = FALSE
  /\ paths = {}
  /\ scaleOut = [denom |-> 0, option |-> "unset"]

InitWith(cfgs, imgs) ==
  /\ pc = "Idle"
  /\ config \in cfgs
  /\ image \in imgs
  /\ freeHeap \in FreeHeaps
  /\ scaleIn = [num |-> 0, den |-> 1]
  /\ CallState0
  /\ IoIdle /\ EtaIdle /\ ScreenIdle

Init == InitWith(Configs, Images)

\* the heap check without the headroom
HeapTooLow_NoHeadroom(h) == h < JPEG_DECODER_APPROX_SIZE

\* freeHeap < MIN_FREE_HEAP_FOR_JPEG
HeapTooLow(h) == h < MIN_FREE_HEAP_FOR_JPEG

\* the dimension check looking at the width only
InvalidDimensions_WidthOnly(w, h) == w <= 0

\* srcWidth <= 0 || srcHeight <= 0
InvalidDimensions(w, h) == w <= 0 \/ h <= 0

\* `return v`
Return(v) == pc' = "Returned" /\ result' = v

(***************************************************************************)
(* decodeToFramebuffer, step by step.                                      *)
(***************************************************************************)
\* freeHeap < MIN_FREE_HEAP_FOR_JPEG: return false
RejectLowHeap ==
  /\ pc = "Idle"
  /\ HeapTooLow(freeHeap)
  /\ Return("false")
  /\ UNCHANGED <<config, image, freeHeap, jpeg, file, ctx, jpegScale,
                 nextBlock, sink, cache, invalidRead, paths, scaleIn, scaleOut,
                 ioVars, etaVars, screenVars>>

\* new (std::nothrow) JPEGDEC() yields null: return false
AllocateDecoderFail ==
  /\ pc = "Idle"
  /\ ~HeapTooLow(freeHeap)
  /\ jpeg' = [jpeg EXCEPT !.news = @ + 1]
  /\ Return("false")
  /\ UNCHANGED <<config, image, freeHeap, file, ctx, jpegScale,
                 nextBlock, sink, cache, invalidRead, paths, scaleIn, scaleOut,
                 ioVars, etaVars, screenVars>>

\* new JPEGDEC() succeeds; the context takes renderer, config and screen size
AllocateDecoder ==
  /\ pc = "Idle"
  /\ ~HeapTooLow(freeHeap)
  /\ jpeg' = [jpeg EXCEPT !.news = @ + 1, !.live = TRUE]
  /\ ctx' = [ctx EXCEPT !.screenWidth = ScreenW, !.screenHeight = ScreenH]
  /\ pc' = "Open"
  /\ UNCHANGED <<config, image, freeHeap, result, file, jpegScale,
                 nextBlock, sink, cache, invalidRead, paths, scaleIn, scaleOut,
                 ioVars, etaVars, screenVars>>

\* jpeg->open: jpegOpen's Storage.openFileForRead fails, jpegOpen deletes the
\* FsFile and returns nullptr, open returns 0; delete jpeg, return false
OpenStorageFail ==
  /\ pc = "Open"
  /\ file' = [file EXCEPT !.opens = @ + 1, !.live = FALSE]
  /\ jpeg' = [jpeg EXCEPT !.live = FALSE]
  /\ Return("false")
  /\ UNCHANGED <<config, image, freeHeap, ctx, jpegScale,
                 nextBlock, sink, cache, invalidRead, paths, scaleIn, scaleOut,
                 ioVars, etaVars, screenVars>>

\* jpeg->open: jpegOpen returns the opened FsFile, the engine's header parse
\* fails and open returns 0 with the handle still open; delete jpeg (no
\* close()), return false
OpenHeaderFail ==
  /\ pc = "Open"
  /\ file' = [file EXCEPT !.opens = @ + 1, !.live = TRUE]
  /\ jpeg' = [jpeg EXCEPT !.live = FALSE]
  /\ Return("false")
  /\ UNCHANGED <<config, image, freeHeap, ctx, jpegScale,
                 nextBlock, sink, cache, invalidRead, paths, scaleIn, scaleOut,
                 ioVars, etaVars, screenVars>>

\* jpeg->open returns 1
OpenOk ==
  /\ pc = "Open"
  /\ file' = [file EXCEPT !.opens = @ + 1, !.live = TRUE]
  /\ jpeg' = [jpeg EXCEPT !.open = TRUE, !.opened = TRUE]
  /\ pc' = "Opened"
  /\ UNCHANGED <<config, image, freeHeap, result, ctx, jpegScale,
                 nextBlock, sink, cache, invalidRead, paths, scaleIn, scaleOut,
                 ioVars, etaVars, screenVars>>

\* delete jpeg without jpeg->close()
CloseAndDelete_DeleteOnly(j) ==
  /\ file' = file
  /\ jpeg' = [j EXCEPT !.live = FALSE]

\* jpeg->close(): jpegClose closes and deletes the FsFile; delete jpeg
CloseAndDelete(j) ==
  /\ file' = [file EXCEPT !.live = FALSE]
  /\ jpeg' = [j EXCEPT !.open = FALSE, !.closes = @ + 1, !.live = FALSE]

\* srcWidth <= 0 || srcHeight <= 0
RejectNonPositive ==
  /\ pc = "Opened"
  /\ InvalidDimensions(image.width, image.height)
  /\ CloseAndDelete(jpeg)
  /\ Return("false")
  /\ UNCHANGED <<config, image, freeHeap, ctx, jpegScale,
                 nextBlock, sink, cache, invalidRead, paths, scaleIn, scaleOut,
                 ioVars, etaVars, screenVars>>

\* !validateImageDimensions(srcWidth, srcHeight, "JPEG")
RejectUnsupported ==
  /\ pc = "Opened"
  /\ ~InvalidDimensions(image.width, image.height)
  /\ ~ValidateImageDimensions(image.width, image.height)
  /\ CloseAndDelete(jpeg)
  /\ Return("false")
  /\ UNCHANGED <<config, image, freeHeap, ctx, jpegScale,
                 nextBlock, sink, cache, invalidRead, paths, scaleIn, scaleOut,
                 ioVars, etaVars, screenVars>>

\* the inverse factor kept in whole samples only
InvScaleFP_WholeSamples(ssw, dw) == (ssw \div dw) * FP_ONE

\* invScaleFP = (int32_t)((int64_t)scaledSrcWidth * FP_ONE / destWidth)
InvScaleFP(ssw, dw) == (ssw * FP_ONE) \div dw

\* the context after the scale decision, inv the value of invScaleFP
ScaledCtx(c, cfg, img, inv) ==
  LET js == JpegScale(cfg, img.width, img.height, img.progressive)
      dw == DestWidth(cfg, img.width, img.height)
      dh == DestHeight(cfg, img.width, img.height)
      ssw == CeilDiv(img.width, js.denom)
  IN [c EXCEPT !.scaledSrcWidth = ssw,
               !.scaledSrcHeight = CeilDiv(img.height, js.denom),
               !.dstWidth = dw, !.dstHeight = dh,
               !.fineScaleFP = (dw * FP_ONE) \div ssw,
               !.invScaleFP = inv]

\* target scale, destination size, coarse scale and the two fixed-point
\* factors; destWidth = 0 makes the division for invScaleFP undefined
ScaleDecision ==
  /\ pc = "Opened"
  /\ ~InvalidDimensions(image.width, image.height)
  /\ ValidateImageDimensions(image.width, image.height)
  /\ LET dw  == DestWidth(config, image.width, image.height)
         js  == JpegScale(config, image.width, image.height, image.progressive)
         ssw == CeilDiv(image.width, js.denom)
     IN /\ jpegScale' = js
        /\ IF dw = 0
           THEN \/ /\ pc' = "Crashed"
                   /\ ctx' = ScaledCtx(ctx, config, image, ctx.invScaleFP)
                \/ /\ pc' = "Scaled"
                   /\ \E inv \in DivZeroValues :
                        ctx' = ScaledCtx(ctx, config, image, inv)
           ELSE /\ pc' = "Scaled"
                /\ ctx' = ScaledCtx(ctx, config, image, InvScaleFP(ssw, dw))
  /\ UNCHANGED <<config, image, freeHeap, result, jpeg, file,
                 nextBlock, sink, cache, invalidRead, paths, scaleIn, scaleOut,
                 ioVars, etaVars, screenVars>>

\* Configure that gives up when the cache allocation fails
Configure_AbortsOnAllocFailure ==
  /\ pc = "Scaled"
  /\ jpeg' = [jpeg EXCEPT !.pixelType = "EIGHT_BIT_GRAYSCALE", !.userPointer = TRUE]
  /\ IF config.cachePath # ""
     THEN \E ok \in BOOLEAN :
            /\ cache' = [cache EXCEPT !.allocCalls = @ + 1]
            /\ ctx' = [ctx EXCEPT !.caching = ok]
            /\ IF ok THEN pc' = "Decoding" /\ UNCHANGED result ELSE Return("false")
     ELSE /\ ctx' = [ctx EXCEPT !.caching = FALSE]
          /\ pc' = "Decoding"
          /\ UNCHANGED <<cache, result>>
  /\ UNCHANGED <<config, image, freeHeap, file, jpegScale,
                 nextBlock, sink, invalidRead, paths, scaleIn, scaleOut,
                 ioVars, etaVars, screenVars>>

\* setPixelType, setUserPointer, and the cache allocation when a cache path is
\* configured (a failed allocation only disables caching)
Configure ==
  /\ pc = "Scaled"
  /\ jpeg' = [jpeg EXCEPT !.pixelType = "EIGHT_BIT_GRAYSCALE", !.userPointer = TRUE]
  /\ IF config.cachePath # ""
     THEN \E ok \in BOOLEAN :
            /\ cache' = [cache EXCEPT !.allocCalls = @ + 1]
            /\ ctx' = [ctx EXCEPT !.caching = ok]
     ELSE /\ ctx' = [ctx EXCEPT !.caching = FALSE]
          /\ UNCHANGED cache
  /\ pc' = "Decoding"
  /\ UNCHANGED <<config, image, freeHeap, result, file, jpegScale,
                 nextBlock, sink, invalidRead, paths, scaleIn, scaleOut,
                 ioVars, etaVars, screenVars>>

\* the size of the image the engine decodes: 1/8 for a progressive source,
\* else the decimation of the option passed to decode()
EngineDenominator ==
  IF image.progressive THEN 8 ELSE OptionDenominator(jpegScale.option)
EngineWidth == CeilDiv(image.width, EngineDenominator)
EngineHeight == CeilDiv(image.height, EngineDenominator)

\* jpeg->decode delivers the next block to jpegDrawCallback
DrawBlock ==
  /\ pc = "Decoding"
  /\ nextBlock < BlockCount(EngineWidth, EngineHeight)
  /\ LET blk == BlockAt(EngineWidth, EngineHeight, nextBlock)
         bad == BlockReadsInvalid(ctx, config, blk)
     IN /\ \E g \in (IF bad THEN GarbageValues ELSE {0}) :
             LET w == BlockWrites(image.seed, ctx, config, blk, g)
             IN /\ sink' = sink \cup { <<p[1], p[2], p[3], nextBlock>> : p \in w }
                /\ cache' = IF ctx.caching
                            THEN [cache EXCEPT !.setPixels =
                                    @ \cup { <<p[1], p[2], p[3], nextBlock>> : p \in w }]
                            ELSE cache
        /\ invalidRead' = (invalidRead \/ bad)
        /\ paths' = IF BlockSkipped(ctx, config, blk) THEN paths
                    ELSE paths \cup {PathOf(ctx.fineScaleFP)}
  /\ UNCHANGED jpeg
  /\ nextBlock' = nextBlock + 1
  /\ UNCHANGED <<pc, config, image, freeHeap, result, file, ctx, jpegScale,
                 scaleIn, scaleOut,
                 ioVars, etaVars, screenVars>>

\* a failed decode that still writes the cache file
DecodeFail_FlushesCache ==
  /\ pc = "Decoding"
  /\ CloseAndDelete([jpeg EXCEPT !.decodeRc = "failed"])
  /\ cache' = IF ctx.caching THEN [cache EXCEPT !.writes = @ + 1] ELSE cache
  /\ Return("false")
  /\ UNCHANGED <<config, image, freeHeap, ctx, jpegScale,
                 nextBlock, sink, invalidRead, paths, scaleIn, scaleOut,
                 ioVars, etaVars, screenVars>>

\* decode returns rc != 1: close, delete, return false
DecodeFail ==
  /\ pc = "Decoding"
  /\ CloseAndDelete([jpeg EXCEPT !.decodeRc = "failed"])
  /\ Return("false")
  /\ UNCHANGED <<config, image, freeHeap, ctx, jpegScale,
                 nextBlock, sink, cache, invalidRead, paths, scaleIn, scaleOut,
                 ioVars, etaVars, screenVars>>

\* decode returns 1: close, delete, write the cache file if caching, return true
DecodeSucceed ==
  /\ pc = "Decoding"
  /\ nextBlock = BlockCount(EngineWidth, EngineHeight)
  /\ CloseAndDelete([jpeg EXCEPT !.decodeRc = "ok"])
  /\ cache' = IF ctx.caching THEN [cache EXCEPT !.writes = @ + 1] ELSE cache
  /\ Return("true")
  /\ UNCHANGED <<config, image, freeHeap, ctx, jpegScale,
                 nextBlock, sink, invalidRead, paths, scaleIn, scaleOut,
                 ioVars, etaVars, screenVars>>

Next ==
  \/ RejectLowHeap
  \/ AllocateDecoderFail
  \/ AllocateDecoder
  \/ OpenStorageFail
  \/ OpenHeaderFail
  \/ OpenOk
  \/ RejectNonPositive
  \/ RejectUnsupported
  \/ ScaleDecision
  \/ Configure
  \/ DrawBlock
  \/ DecodeFail
  \/ DecodeSucceed

Spec == Init /\ [][Next]_vars

(***************************************************************************)
(* SpecProg: the call for progressive sources decoded into an exact        *)
(* ExactBox x ExactBox destination, the source sizes around 8 * ExactBox.  *)
(***************************************************************************)
ExactBox == 100
ProgConfigs ==
  [x : {0}, y : {0, -1}, maxWidth : {ExactBox}, maxHeight : {ExactBox},
   useExactDimensions : {TRUE}, useDithering : BOOLEAN, cachePath : {""}]
ProgWidths ==
  {8, 8 * (ExactBox - 1), 8 * ExactBox - 7, 8 * ExactBox, 8 * ExactBox + 1, 16 * ExactBox}
ProgHeights == {8, 4 * ExactBox, 8 * ExactBox, 8 * ExactBox + 8}
ProgImages ==
  [width : ProgWidths, height : ProgHeights, progressive : {TRUE}, seed : {0}]
  \cup { [width |-> 0, height |-> 8, progressive |-> TRUE, seed |-> 0],
         [width |-> 2048, height |-> 2048, progressive |-> TRUE, seed |-> 0] }

InitProg == InitWith(ProgConfigs, ProgImages)
SpecProg == InitProg /\ [][Next]_vars

(***************************************************************************)
(* SpecScale: chooseJpegScale on its own.  The target scale is the float   *)
(* nearest to num / den: ten-thousandths around the three thresholds, and  *)
(* the eighths.                                                            *)
(***************************************************************************)
MaxDelta == 12
MaxEighths == 12
ScaleInputs ==
  { [num |-> b + d, den |-> 10000] :
      b \in {1250, 2500, 5000}, d \in (-MaxDelta)..MaxDelta }
  \cup { [num |-> k, den |-> 8] : k \in 1..MaxEighths }

InitScale ==
  /\ pc = "ChooseScale"
  /\ config = CHOOSE c \in Configs : TRUE
  /\ image = CHOOSE i \in Images : TRUE
  /\ freeHeap = MIN_FREE_HEAP_FOR_JPEG
  /\ scaleIn \in ScaleInputs
  /\ CallState0
  /\ IoIdle /\ EtaIdle /\ ScreenIdle

\* jpegScaleDenom = chooseJpegScale(targetScale, jpegScaleOption)
ApplyChooseJpegScale ==
  /\ pc = "ChooseScale"
  /\ scaleOut' = ChooseJpegScale(F32Div(scaleIn.num, scaleIn.den))
  /\ pc' = "ScaleChosen"
  /\ UNCHANGED <<config, image, freeHeap, result, jpeg, file, ctx, jpegScale,
                 nextBlock, sink, cache, invalidRead, paths, scaleIn,
                 ioVars, etaVars, screenVars>>

NextScale == ApplyChooseJpegScale
SpecScale == InitScale /\ [][NextScale]_vars

(***************************************************************************)
(* SpecFile: the engine calling jpegRead and jpegSeek on the JPEGFILE of   *)
(* an opened file, in any order.  FsFile::read returns the number of bytes *)
(* it delivered, fewer than asked at the end of the file or on a short     *)
(* read, or a negative value on an error, which may come after part of the *)
(* request was consumed; FsFile::seek moves the position or fails and      *)
(* leaves it.                                                              *)
(***************************************************************************)
MaxFileSize == 4
MaxReadLen == 3
ReadLens == 1..MaxReadLen
SeekTargets == (-1)..(MaxFileSize + 1)

\* the decode state of a call that is inside jpeg->open or jpeg->decode
InsideEngine ==
  /\ pc = "InEngine"
  /\ config = CHOOSE c \in Configs : TRUE
  /\ image = CHOOSE i \in Images : TRUE
  /\ freeHeap = MIN_FREE_HEAP_FOR_JPEG
  /\ scaleIn = [num |-> 0, den |-> 1]
  /\ CallState0

InitFile ==
  /\ InsideEngine
  /\ EtaIdle /\ ScreenIdle
  /\ pFile \in { [fHandle |-> h, iPos |-> 0] : h \in BOOLEAN }
  /\ fsPos = 0
  /\ fsSize \in 0..MaxFileSize
  /\ ioRet = [op |-> "none", rc |-> 0]

\* jpegRead with a null handle: return 0
JpegReadNoHandle ==
  /\ ~pFile.fHandle
  /\ ioRet' = [op |-> "read", rc |-> 0]
  /\ UNCHANGED <<pFile, fsPos, fsSize, decodeVars, etaVars, screenVars>>

\* jpegRead: f->read delivers bytesRead >= 0 bytes; iPos += bytesRead
JpegRead(len) ==
  /\ pFile.fHandle
  /\ \E bytesRead \in 0..Min(len, fsSize - fsPos) :
       /\ fsPos' = fsPos + bytesRead
       /\ pFile' = [pFile EXCEPT !.iPos = @ + bytesRead]
       /\ ioRet' = [op |-> "read", rc |-> bytesRead]
  /\ UNCHANGED <<fsSize, decodeVars, etaVars, screenVars>>

\* jpegRead: f->read returns a negative value after consuming `consumed`
\* bytes of the request; return 0, iPos untouched
JpegReadError(len) ==
  /\ pFile.fHandle
  /\ \E consumed \in 0..Max(0, Min(len, fsSize - fsPos) - 1) :
       fsPos' = fsPos + consumed
  /\ ioRet' = [op |-> "read", rc |-> 0]
  /\ UNCHANGED <<pFile, fsSize, decodeVars, etaVars, screenVars>>

\* jpegSeek with a null handle: return -1
JpegSeekNoHandle ==
  /\ ~pFile.fHandle
  /\ ioRet' = [op |-> "seek", rc |-> -1]
  /\ UNCHANGED <<pFile, fsPos, fsSize, decodeVars, etaVars, screenVars>>

\* jpegSeek: f->seek(pos) succeeds; iPos = pos, return pos
JpegSeek(pos) ==
  /\ pFile.fHandle
  /\ 0 <= pos /\ pos <= fsSize
  /\ fsPos' = pos
  /\ pFile' = [pFile EXCEPT !.iPos = pos]
  /\ ioRet' = [op |-> "seek", rc |-> pos]
  /\ UNCHANGED <<fsSize, decodeVars, etaVars, screenVars>>

\* jpegSeek: f->seek(pos) fails (target outside the file, or a storage
\* error); return -1
JpegSeekError(pos) ==
  /\ pFile.fHandle
  /\ ioRet' = [op |-> "seek", rc |-> -1]
  /\ UNCHANGED <<pFile, fsPos, fsSize, decodeVars, etaVars, screenVars>>

NextFile ==
  \/ JpegReadNoHandle
  \/ \E len \in ReadLens : JpegRead(len)
  \/ \E len \in ReadLens : JpegReadError(len)
  \/ JpegSeekNoHandle
  \/ \E pos \in SeekTargets : JpegSeek(pos)
  \/ \E pos \in SeekTargets : JpegSeekError(pos)

SpecFile == InitFile /\ [][NextFile]_vars

(***************************************************************************)
(* SpecEta: PageTurnEtaEstimator (util/PageTurnEtaEstimator.cpp) driven by *)
(* any sequence of reset(), onPageRendered() and estimateMinutesToEnd().   *)
(* unsigned long is 32 bits: a time is [hi, lo], two 16-bit halves.        *)
(***************************************************************************)
MIN_VALID_TURN_INTERVAL_MS == 800
MAX_VALID_TURN_INTERVAL_MS == 10 * 60 * 1000

\* calls of reset / onPageRendered in one behaviour
MaxCalls == 3
\* the largest remainingPages asked about
MaxPages == 100

Half == 65536
\* (a + d) mod 2^32 for a time a and 0 <= d < 2^31
Add32(a, d) ==
  LET lo == a.lo + (d % Half)
      hi == a.hi + (d \div Half) + (lo \div Half)
  IN [hi |-> hi % Half, lo |-> lo % Half]
\* (a - b) mod 2^32
Sub32(a, b) ==
  LET lo == a.lo - b.lo
      hi == a.hi - b.hi - (IF lo < 0 THEN 1 ELSE 0)
  IN [hi |-> (hi + Half) % Half, lo |-> (lo + Half) % Half]
\* t < n and t > n for a time t and 0 <= n < 2^31
Less32(t, n) == t.hi < Half \div 2 /\ t.hi * Half + t.lo < n
Greater32(t, n) == t.hi >= Half \div 2 \/ t.hi * Half + t.lo > n

\* n / 2^s (0 < n < 2^31) rounded to a float, nearest and ties to even;
\* sticky tells that bits below n were dropped
F32Round(n, s, sticky) ==
  LET L == BitLen(n)
      d == L - 24
      q == n \div Pow2(d)
      r == n % Pow2(d)
      half == Pow2(d - 1)
      up == r > half \/ (r = half /\ (sticky \/ q % 2 = 1))
      m == IF up THEN q + 1 ELSE q
  IN IF L <= 24 THEN [m |-> n * Pow2(24 - L), s |-> s + 24 - L]
     ELSE IF m = Pow2(24) THEN [m |-> Pow2(23), s |-> s - d - 1]
     ELSE [m |-> m, s |-> s - d]

\* static_cast<float>(n) for 0 < n < 2^24
F32FromInt(n) == F32Round(n, 0, FALSE)

\* a + b for two positive floats
F32Add(a, b) ==
  LET big   == IF F32Less(a, b) THEN b ELSE a
      small == IF F32Less(a, b) THEN a ELSE b
      d     == small.s - big.s
      B     == IF d >= 28 THEN 0 ELSE (small.m * 8) \div Pow2(d)
      lost  == IF d >= 28 THEN TRUE ELSE (small.m * 8) % Pow2(d) # 0
  IN F32Round(big.m * 8 + B, big.s + 3, lost)

\* smoothingFactor * sample + (1.0f - smoothingFactor) * ema with the default
\* smoothingFactor 0.125f: the first product is exact, the second and the
\* sum are rounded
EmaUpdate(ema, intervalMs) ==
  LET sample == F32FromInt(intervalMs)
      x == [m |-> sample.m, s |-> sample.s + 3]
      y == F32Round(7 * ema.m, ema.s + 3, FALSE)
  IN F32Add(x, y)

\* (int)std::ceil(f) for a positive float
F32Ceil(f) ==
  IF f.s <= 0 THEN f.m * Pow2(-f.s)
  ELSE IF f.s >= 24 THEN 1
  ELSE (f.m + Pow2(f.s) - 1) \div Pow2(f.s)

\* ceil(ema * (float)remainingPages / (60.0f * 1000.0f)), 0 < remainingPages < 128
MinutesFor(ema, remainingPages) ==
  LET etaMs == F32Round(ema.m * remainingPages, ema.s, FALSE)
      q     == F32Div(etaMs.m, 60000)
      minutes == F32Ceil([m |-> q.m, s |-> q.s + etaMs.s])
  IN IF minutes < 0 THEN 0 ELSE minutes

\* the cold-start test asking for one valid turn only
ColdStart_AfterOneTurn(e) == ~e.emaInitialized \/ e.validTurnCount < 1

\* !emaInitialized || validTurnCount < 2
ColdStart(e) == ~e.emaInitialized \/ e.validTurnCount < 2

\* intervalMs < MIN_VALID_TURN_INTERVAL_MS || intervalMs > MAX_VALID_TURN_INTERVAL_MS
IntervalOutOfRange(intervalMs) ==
  Less32(intervalMs, MIN_VALID_TURN_INTERVAL_MS)
    \/ Greater32(intervalMs, MAX_VALID_TURN_INTERVAL_MS)

\* inputs
PageKeys == { <<0, 0>>, <<0, 1>>, <<1, 0>> }
Elapsed == { MIN_VALID_TURN_INTERVAL_MS - 1, MIN_VALID_TURN_INTERVAL_MS,
             MAX_VALID_TURN_INTERVAL_MS, MAX_VALID_TURN_INTERVAL_MS + 1 }
RemainingPages == { -1, 0, 1, MaxPages }
\* the clock at construction: just started, or about to wrap
StartTimes == { [hi |-> 0, lo |-> 0], [hi |-> Half - 1, lo |-> Half - 1000] }

InitEta ==
  /\ InsideEngine
  /\ IoIdle /\ ScreenIdle
  /\ est = Est0
  /\ nowMs \in StartTimes
  /\ history = << >>
  /\ etaOut = [remainingPages |-> 0, minutes |-> 0, at |-> -1]

\* reset()
Reset ==
  /\ Len(history) < MaxCalls
  /\ est' = Est0
  /\ history' = Append(history, [op |-> "reset"])
  /\ UNCHANGED <<nowMs, etaOut, decodeVars, ioVars, screenVars>>

\* onPageRendered(sectionIndex, pageIndex, nowMs), `elapsed` ms after the
\* previous call
OnPageRendered(sectionIndex, pageIndex, elapsed) ==
  /\ Len(history) < MaxCalls
  /\ nowMs' = Add32(nowMs, elapsed)
  /\ history' = Append(history, [op |-> "render", sectionIndex |-> sectionIndex,
                                 pageIndex |-> pageIndex, nowMs |-> nowMs'])
  /\ LET intervalMs == Sub32(nowMs', est.lastPageTimestampMs)
         moved == [est EXCEPT !.currentSectionIndex = sectionIndex,
                              !.currentPageIndex = pageIndex,
                              !.lastPageTimestampMs = nowMs']
     IN est' =
          IF ~est.hasCurrentPageKey THEN [moved EXCEPT !.hasCurrentPageKey = TRUE]
          ELSE IF est.currentSectionIndex = sectionIndex
                  /\ est.currentPageIndex = pageIndex THEN est
          ELSE IF IntervalOutOfRange(intervalMs) THEN moved
          ELSE [moved EXCEPT
                  !.emaPageTurnIntervalMs =
                     IF ~est.emaInitialized
                     THEN F32FromInt(intervalMs.hi * Half + intervalMs.lo)
                     ELSE EmaUpdate(@, intervalMs.hi * Half + intervalMs.lo),
                  !.emaInitialized = TRUE,
                  !.validTurnCount = @ + 1]
  /\ UNCHANGED <<etaOut, decodeVars, ioVars, screenVars>>

\* estimateMinutesToEnd(remainingPages)
EstimateMinutesToEnd(remainingPages) ==
  /\ etaOut' = [remainingPages |-> remainingPages,
                minutes |-> IF remainingPages <= 0 THEN 0
                            ELSE IF ColdStart(est) THEN -1
                            ELSE MinutesFor(est.emaPageTurnIntervalMs, remainingPages),
                at |-> Len(history)]
  /\ UNCHANGED <<est, nowMs, history, decodeVars, ioVars, screenVars>>

NextEta ==
  \/ Reset
  \/ \E k \in PageKeys, e \in Elapsed : OnPageRendered(k[1], k[2], e)
  \/ \E n \in RemainingPages : EstimateMinutesToEnd(n)

SpecEta == InitEta /\ [][NextEta]_vars

(***************************************************************************)
(* SpecScreen: FileSelectionScreen (screens/FileSelectionScreen.cpp): the  *)
(* main task running onEnter, handleInput and onExit, and the display task *)
(* running displayTaskLoop, interleaved statement by statement.  Strings   *)
(* are sequences of characters.                                            *)
(***************************************************************************)
RootPath == <<"/">>
EpubSuffix == <<".", "e", "p", "u", "b">>
Entry(name, isDirectory) == [name |-> name, isDirectory |-> isDirectory]

\* the cards: a directory with an empty subdirectory, an empty card, and a
\* subdirectory holding a file with a name shorter than the suffix
SdCards ==
  { [p \in {RootPath, <<"/", "d">>} |->
       IF p = RootPath
       THEN << Entry(<<"d">>, TRUE), Entry(<<"a", ".", "e", "p", "u", "b">>, FALSE),
               Entry(<<".", "h">>, FALSE), Entry(<<"n", ".", "t", "x", "t">>, FALSE) >>
       ELSE << >>],
    [p \in {RootPath} |-> << >>],
    [p \in {RootPath, <<"/", "d">>} |->
       IF p = RootPath
       THEN << Entry(<<"d">>, TRUE) >>
       ELSE << Entry(<<"b", ".", "e", "p", "u", "b">>, FALSE), Entry(<<"x">>, FALSE) >>] }

Buttons == [confirm : BOOLEAN, back : BOOLEAN, prev : BOOLEAN, next : BOOLEAN]
\* what a remainder modulo files.size() = 0 may leave in selectorIndex
GarbageIndexes == {-1, 1}

\* the entries SD.open(path) yields through openNextFile
Listing(path) == IF path \in DOMAIN sdCard THEN sdCard[path] ELSE << >>

\* basepath.substr(0, basepath.rfind('/')), "/" when that is empty
RECURSIVE RFind(_, _, _)
RFind(str, ch, i) == IF i = 0 \/ str[i] = ch THEN i ELSE RFind(str, ch, i - 1)
ParentPath(path) ==
  LET sub == SubSeq(path, 1, RFind(path, "/", Len(path)) - 1)
  IN IF sub = << >> THEN RootPath ELSE sub

\* loadFiles has cleared the list and not yet finished refilling it
MidLoad == mainPc.at \in {"LoadIndex", "LoadEntry"}
InRender == taskPc \in {"Render", "RenderSelection", "RenderItem", "RenderFlush"}

\* onExit going on without the mutex
OnExitMayProceed_NoWait == TRUE

\* xSemaphoreTake(renderingMutex, portMAX_DELAY) of onExit returns
OnExitMayProceed == renderingMutex = "free"

(***************************************************************************)
(* The main task.                                                          *)
(***************************************************************************)
\* onEnter up to the loadFiles call
OnEnter ==
  /\ mainPc.at = "Constructed"
  /\ renderingMutex' = "free"
  /\ basepath' = RootPath
  /\ mainPc' = [at |-> "LoadClear", in |-> "onEnter"]
  /\ UNCHANGED <<taskPc, displayTaskHandle, updateRequired, files, selectorIndex,
                 sdCard, loadI, renderI, screenLog, decodeVars, ioVars, etaVars>>

\* loadFiles: files.clear()
LoadClear ==
  /\ mainPc.at = "LoadClear"
  /\ files' = << >>
  /\ mainPc' = [mainPc EXCEPT !.at = "LoadIndex"]
  /\ UNCHANGED <<taskPc, renderingMutex, displayTaskHandle, updateRequired,
                 selectorIndex, basepath, sdCard, loadI, renderI, screenLog,
                 decodeVars, ioVars, etaVars>>

\* loadFiles: selectorIndex = 0; root = SD.open(basepath)
LoadIndex ==
  /\ mainPc.at = "LoadIndex"
  /\ selectorIndex' = 0
  /\ loadI' = 1
  /\ mainPc' = [mainPc EXCEPT !.at = "LoadEntry"]
  /\ UNCHANGED <<taskPc, renderingMutex, displayTaskHandle, updateRequired, files,
                 basepath, sdCard, renderI, screenLog, decodeVars, ioVars, etaVars>>

\* loadFiles: one turn of the loop over the directory: a hidden entry is
\* skipped, a directory is listed with a trailing '/', a file is listed when
\* its last five characters are ".epub"
LoadEntry ==
  /\ mainPc.at = "LoadEntry"
  /\ loadI <= Len(Listing(basepath))
  /\ LET entry == Listing(basepath)[loadI]
         filename == entry.name
     IN /\ filename[1] = "." \/ entry.isDirectory \/ Len(filename) >= 5
        /\ files' =
             IF filename[1] = "." THEN files
             ELSE IF entry.isDirectory THEN Append(files, filename \o <<"/">>)
             ELSE IF SubSeq(filename, Len(filename) - 4, Len(filename)) = EpubSuffix
                  THEN Append(files, filename)
             ELSE files
  /\ loadI' = loadI + 1
  /\ UNCHANGED <<mainPc, taskPc, renderingMutex, displayTaskHandle, updateRequired,
                 selectorIndex, basepath, sdCard, renderI, screenLog,
                 decodeVars, ioVars, etaVars>>

\* loadFiles: filename.substr(filename.length() - 5) on a file name shorter
\* than five characters throws std::out_of_range: the firmware aborts
LoadEntryAbort ==
  /\ mainPc.at = "LoadEntry"
  /\ loadI <= Len(Listing(basepath))
  /\ LET entry == Listing(basepath)[loadI]
     IN entry.name[1] # "." /\ ~entry.isDirectory /\ Len(entry.name) < 5
  /\ mainPc' = [mainPc EXCEPT !.at = "Aborted"]
  /\ UNCHANGED <<taskPc, renderingMutex, displayTaskHandle, updateRequired, files,
                 selectorIndex, basepath, sdCard, loadI, renderI, screenLog,
                 decodeVars, ioVars, etaVars>>

\* loadFiles returns: to onEnter or to handleInput
LoadEnd ==
  /\ mainPc.at = "LoadEntry"
  /\ loadI > Len(Listing(basepath))
  /\ mainPc' = [mainPc EXCEPT !.at = IF mainPc.in = "onEnter" THEN "EnterFinish" ELSE "SetUpdate"]
  /\ UNCHANGED <<taskPc, renderingMutex, displayTaskHandle, updateRequired, files,
                 selectorIndex, basepath, sdCard, loadI, renderI, screenLog,
                 decodeVars, ioVars, etaVars>>

\* onEnter after loadFiles: selectorIndex = 0, updateRequired = true, xTaskCreate
EnterFinish ==
  /\ mainPc.at = "EnterFinish"
  /\ selectorIndex' = 0
  /\ updateRequired' = TRUE
  /\ taskPc' = "Check"
  /\ displayTaskHandle' = "task"
  /\ mainPc' = [at |-> "Idle", in |-> "none"]
  /\ UNCHANGED <<renderingMutex, files, basepath, sdCard, loadI, renderI, screenLog,
                 decodeVars, ioVars, etaVars>>

\* handleInput: updateRequired = true, return
SetUpdate ==
  /\ mainPc.at = "SetUpdate"
  /\ updateRequired' = TRUE
  /\ mainPc' = [at |-> "Idle", in |-> "none"]
  /\ UNCHANGED <<taskPc, renderingMutex, displayTaskHandle, files, selectorIndex,
                 basepath, sdCard, loadI, renderI, screenLog, decodeVars, ioVars, etaVars>>

\* handleInput, BTN_CONFIRM pressed: nothing on an empty list; a directory is
\* entered; a file is handed to onSelect.  files[selectorIndex] with the index
\* outside the list is undefined: an abort, or some string that is no directory
HandleConfirm(b) ==
  /\ mainPc.at = "Idle"
  /\ b.confirm
  /\ IF files = << >>
     THEN UNCHANGED <<mainPc, basepath, screenLog>>
     ELSE LET slashed == IF basepath[Len(basepath)] # "/" THEN basepath \o <<"/">> ELSE basepath
          IN /\ IF selectorIndex \notin 0..(Len(files) - 1)
                THEN \/ /\ mainPc' = [mainPc EXCEPT !.at = "Aborted"]
                        /\ basepath' = slashed
                        /\ UNCHANGED screenLog
                     \/ /\ screenLog' = [screenLog EXCEPT !.selected = slashed \o <<"?">>]
                        /\ basepath' = slashed
                        /\ UNCHANGED mainPc
                ELSE LET name == files[selectorIndex + 1]
                     IN IF name[Len(name)] = "/"
                        THEN /\ basepath' = slashed \o SubSeq(name, 1, Len(name) - 1)
                             /\ mainPc' = [at |-> "LoadClear", in |-> "handleInput"]
                             /\ UNCHANGED screenLog
                        ELSE /\ basepath' = slashed
                             /\ screenLog' = [screenLog EXCEPT !.selected = slashed \o name]
                             /\ UNCHANGED mainPc
  /\ UNCHANGED <<taskPc, renderingMutex, displayTaskHandle, updateRequired, files,
                 selectorIndex, sdCard, loadI, renderI, decodeVars, ioVars, etaVars>>

\* handleInput, BTN_BACK pressed below the root: up one level and reload
HandleBack(b) ==
  /\ mainPc.at = "Idle"
  /\ ~b.confirm /\ b.back /\ basepath # RootPath
  /\ basepath' = ParentPath(basepath)
  /\ mainPc' = [at |-> "LoadClear", in |-> "handleInput"]
  /\ UNCHANGED <<taskPc, renderingMutex, displayTaskHandle, updateRequired, files,
                 selectorIndex, sdCard, loadI, renderI, screenLog,
                 decodeVars, ioVars, etaVars>>

\* selectorIndex = (selectorIndex + step) % files.size(); the remainder modulo
\* zero is undefined: an abort, or some value left in selectorIndex
MoveSelector(step) ==
  IF files = << >>
  THEN /\ screenLog' = [screenLog EXCEPT !.modZero = TRUE]
       /\ \/ /\ mainPc' = [mainPc EXCEPT !.at = "Aborted"]
             /\ UNCHANGED selectorIndex
          \/ /\ selectorIndex' \in GarbageIndexes
             /\ mainPc' = [at |-> "SetUpdate", in |-> "handleInput"]
  ELSE /\ selectorIndex' = (selectorIndex + step) % Len(files)
       /\ mainPc' = [at |-> "SetUpdate", in |-> "handleInput"]
       /\ UNCHANGED screenLog

\* handleInput, BTN_UP or BTN_LEFT pressed
HandlePrev(b) ==
  /\ mainPc.at = "Idle"
  /\ ~b.confirm /\ ~(b.back /\ basepath # RootPath) /\ b.prev
  /\ MoveSelector(Len(files) - 1)
  /\ UNCHANGED <<taskPc, renderingMutex, displayTaskHandle, updateRequired, files,
                 basepath, sdCard, loadI, renderI, decodeVars, ioVars, etaVars>>

\* handleInput, BTN_DOWN or BTN_RIGHT pressed
HandleNext(b) ==
  /\ mainPc.at = "Idle"
  /\ ~b.confirm /\ ~(b.back /\ basepath # RootPath) /\ ~b.prev /\ b.next
  /\ MoveSelector(1)
  /\ UNCHANGED <<taskPc, renderingMutex, displayTaskHandle, updateRequired, files,
                 basepath, sdCard, loadI, renderI, decodeVars, ioVars, etaVars>>

\* onExit is called
OnExit ==
  /\ mainPc.at = "Idle"
  /\ mainPc' = [at |-> "ExitTake", in |-> "onExit"]
  /\ UNCHANGED <<taskPc, renderingMutex, displayTaskHandle, updateRequired, files,
                 selectorIndex, basepath, sdCard, loadI, renderI, screenLog,
                 decodeVars, ioVars, etaVars>>

\* onExit: xSemaphoreTake(renderingMutex, portMAX_DELAY)
ExitTake ==
  /\ mainPc.at = "ExitTake"
  /\ OnExitMayProceed
  /\ renderingMutex' = "main"
  /\ mainPc' = [mainPc EXCEPT !.at = "ExitDelete"]
  /\ UNCHANGED <<taskPc, displayTaskHandle, updateRequired, files, selectorIndex,
                 basepath, sdCard, loadI, renderI, screenLog, decodeVars, ioVars, etaVars>>

\* onExit: vTaskDelete(displayTaskHandle); displayTaskHandle = nullptr
ExitDelete ==
  /\ mainPc.at = "ExitDelete"
  /\ IF displayTaskHandle # "null"
     THEN /\ screenLog' = [screenLog EXCEPT !.deletedAt = taskPc]
          /\ taskPc' = "Deleted"
          /\ displayTaskHandle' = "null"
     ELSE UNCHANGED <<screenLog, taskPc, displayTaskHandle>>
  /\ mainPc' = [mainPc EXCEPT !.at = "ExitSemDelete"]
  /\ UNCHANGED <<renderingMutex, updateRequired, files, selectorIndex, basepath,
                 sdCard, loadI, renderI, decodeVars, ioVars, etaVars>>

\* onExit: vSemaphoreDelete(renderingMutex); renderingMutex = nullptr
ExitSemDelete ==
  /\ mainPc.at = "ExitSemDelete"
  /\ renderingMutex' = "null"
  /\ mainPc' = [mainPc EXCEPT !.at = "ExitClear"]
  /\ UNCHANGED <<taskPc, displayTaskHandle, updateRequired, files, selectorIndex,
                 basepath, sdCard, loadI, renderI, screenLog, decodeVars, ioVars, etaVars>>

\* onExit: files.clear()
ExitClear ==
  /\ mainPc.at = "ExitClear"
  /\ files' = << >>
  /\ mainPc' = [at |-> "Exited", in |-> "none"]
  /\ UNCHANGED <<taskPc, renderingMutex, displayTaskHandle, updateRequired,
                 selectorIndex, basepath, sdCard, loadI, renderI, screenLog,
                 decodeVars, ioVars, etaVars>>

(***************************************************************************)
(* The display task.                                                       *)
(***************************************************************************)
\* a step of render that reads the list or the selection
RenderReads ==
  screenLog' = [screenLog EXCEPT
                  !.readDuringLoad = @ \/ MidLoad,
                  !.renderedWhileExitWaits = @ \/ mainPc.at = "ExitTake"]

\* if (updateRequired) ... else vTaskDelay
TaskCheck ==
  /\ mainPc.at # "Aborted" /\ taskPc = "Check"
  /\ taskPc' = IF updateRequired THEN "ClearFlag" ELSE "Delay"
  /\ UNCHANGED <<mainPc, renderingMutex, displayTaskHandle, updateRequired, files,
                 selectorIndex, basepath, sdCard, loadI, renderI, screenLog,
                 decodeVars, ioVars, etaVars>>

\* updateRequired = false
TaskClearFlag ==
  /\ mainPc.at # "Aborted" /\ taskPc = "ClearFlag"
  /\ taskPc' = "Take"
  /\ updateRequired' = FALSE
  /\ UNCHANGED <<mainPc, renderingMutex, displayTaskHandle, files, selectorIndex,
                 basepath, sdCard, loadI, renderI, screenLog, decodeVars, ioVars, etaVars>>

\* xSemaphoreTake(renderingMutex, portMAX_DELAY)
TaskTake ==
  /\ mainPc.at # "Aborted" /\ taskPc = "Take"
  /\ taskPc' = "Render"
  /\ renderingMutex = "free"
  /\ renderingMutex' = "display"
  /\ UNCHANGED <<mainPc, displayTaskHandle, updateRequired, files, selectorIndex,
                 basepath, sdCard, loadI, renderI, screenLog, decodeVars, ioVars, etaVars>>

\* render: clearScreen, the title, if (files.empty()) "No EPUBs found"
RenderBegin ==
  /\ mainPc.at # "Aborted" /\ taskPc = "Render"
  /\ taskPc' = IF files = << >> THEN "RenderFlush" ELSE "RenderSelection"
  /\ RenderReads
  /\ UNCHANGED <<mainPc, renderingMutex, displayTaskHandle, updateRequired, files,
                 selectorIndex, basepath, sdCard, loadI, renderI, decodeVars, ioVars, etaVars>>

\* render: fillRect at selectorIndex; i = 0
RenderSelection ==
  /\ mainPc.at # "Aborted" /\ taskPc = "RenderSelection"
  /\ taskPc' = "RenderItem"
  /\ renderI' = 0
  /\ RenderReads
  /\ UNCHANGED <<mainPc, renderingMutex, displayTaskHandle, updateRequired, files,
                 selectorIndex, basepath, sdCard, loadI, decodeVars, ioVars, etaVars>>

\* render: one turn of the loop, i < files.size(): drawUiText(files[i]); i++
RenderItem ==
  /\ mainPc.at # "Aborted" /\ taskPc = "RenderItem"
  /\ IF renderI < Len(files)
     THEN taskPc' = "RenderItem" /\ renderI' = renderI + 1
     ELSE taskPc' = "RenderFlush" /\ UNCHANGED renderI
  /\ RenderReads
  /\ UNCHANGED <<mainPc, renderingMutex, displayTaskHandle, updateRequired, files,
                 selectorIndex, basepath, sdCard, loadI, decodeVars, ioVars, etaVars>>

\* render: flushDisplay
RenderFlush ==
  /\ mainPc.at # "Aborted" /\ taskPc = "RenderFlush"
  /\ taskPc' = "Give"
  /\ screenLog' = [screenLog EXCEPT
                     !.renderedWhileExitWaits = @ \/ mainPc.at = "ExitTake"]
  /\ UNCHANGED <<mainPc, renderingMutex, displayTaskHandle, updateRequired, files,
                 selectorIndex, basepath, sdCard, loadI, renderI, decodeVars, ioVars, etaVars>>

\* xSemaphoreGive(renderingMutex)
TaskGive ==
  /\ mainPc.at # "Aborted" /\ taskPc = "Give"
  /\ taskPc' = "Delay"
  /\ renderingMutex' = "free"
  /\ UNCHANGED <<mainPc, displayTaskHandle, updateRequired, files, selectorIndex,
                 basepath, sdCard, loadI, renderI, screenLog, decodeVars, ioVars, etaVars>>

\* vTaskDelay(10 / portTICK_PERIOD_MS)
TaskDelay ==
  /\ mainPc.at # "Aborted" /\ taskPc = "Delay"
  /\ taskPc' = "Check"
  /\ UNCHANGED <<mainPc, renderingMutex, displayTaskHandle, updateRequired, files,
                 selectorIndex, basepath, sdCard, loadI, renderI, screenLog,
                 decodeVars, ioVars, etaVars>>

InitScreen ==
  /\ InsideEngine
  /\ IoIdle /\ EtaIdle
  /\ Screen0
  /\ sdCard \in SdCards

NextScreen ==
  \/ OnEnter
  \/ LoadClear
  \/ LoadIndex
  \/ LoadEntry
  \/ LoadEntryAbort
  \/ LoadEnd
  \/ EnterFinish
  \/ SetUpdate
  \/ \E b \in Buttons : HandleConfirm(b)
  \/ \E b \in Buttons : HandleBack(b)
  \/ \E b \in Buttons : HandlePrev(b)
  \/ \E b \in Buttons : HandleNext(b)
  \/ OnExit
  \/ ExitTake
  \/ ExitDelete
  \/ ExitSemDelete
  \/ ExitClear
  \/ TaskCheck
  \/ TaskClearFlag
  \/ TaskTake
  \/ RenderBegin
  \/ RenderSelection
  \/ RenderItem
  \/ RenderFlush
  \/ TaskGive
  \/ TaskDelay

SpecScreen == InitScreen /\ [][NextScreen]_vars

(***************************************************************************)
(* Properties.                                                             *)
(***************************************************************************)
ScaleDecided == jpegScale.option # "unset"

\* C1: once jpeg->open has succeeded, every return of decodeToFramebuffer
\* (non-positive dimensions, unsupported dimensions, decode failure, success)
\* has closed the engine, so that jpegClose released the FsFile, and has
\* deleted the decoder instance.
ReleasedOnEveryReturn ==
  (pc = "Returned" /\ jpeg.opened) =>
    (~file.live /\ ~jpeg.live /\ ~jpeg.open /\ jpeg.closes = 1)

ReturnedAfterFailedDecode ==
  pc = "Returned" /\ jpeg.opened /\ jpeg.decodeRc = "failed" /\ result = "false"

\* C2: when jpeg->open fails, with the storage open failing or with the file
\* opened by jpegOpen and the header parse failing, the call returns false
\* with neither the decoder instance nor the FsFile of jpegOpen left live.
OpenFailureLeavesNothing ==
  (pc = "Returned" /\ file.opens = 1 /\ ~jpeg.opened) =>
    (result = "false" /\ ~jpeg.live /\ ~file.live)

\* C3: with free heap below 20 KiB + 16 KiB the call fails before a decoder
\* instance is created: no allocation of the decoder, no file open, no pixel
\* drawn or cached.
LowHeapFailsBeforeDecoder ==
  (freeHeap < 20 * 1024 + 16 * 1024) =>
    /\ jpeg.news = 0 /\ file.opens = 0 /\ sink = {} /\ cache.setPixels = {}
    /\ cache.allocCalls = 0 /\ cache.writes = 0
    /\ pc = "Idle" \/ (pc = "Returned" /\ result = "false")

LowHeapRejected ==
  pc = "Returned" /\ result = "false" /\ freeHeap = 20 * 1024 + 16 * 1024 - 1

\* C4: writeToFile is called at most once per call, and only after the engine
\* reported a successful decode and was closed; a call that returns false has
\* never called it.
CacheWrittenOnlyAfterSuccess ==
  /\ cache.writes <= 1
  /\ cache.writes = 1 =>
       /\ pc = "Returned" /\ result = "true" /\ jpeg.decodeRc = "ok"
       /\ ~jpeg.open /\ ~jpeg.live /\ jpeg.closes = 1 /\ ctx.caching
  /\ result = "false" => cache.writes = 0

CacheFileWritten ==
  cache.writes = 1 /\ cache.setPixels # {} /\ result = "true"

\* C5: with a cache path configured and PixelCache::allocate failing, the call
\* goes on without caching: the decode runs, every block draws to the sink
\* the pixels it draws with caching active, the call returns true exactly
\* when the engine's decode succeeded, and neither setPixel nor writeToFile is
\* called.
CacheAllocFailed == config.cachePath # "" /\ cache.allocCalls = 1 /\ ~ctx.caching

SinkOfBlock(i) == { p \in sink : p[4] = i }

WritesWithCaching(i, g) ==
  { <<p[1], p[2], p[3], i>> :
      p \in BlockWrites(image.seed, [ctx EXCEPT !.caching = TRUE], config,
                        BlockAt(EngineWidth, EngineHeight, i), g) }

CacheAllocFailureDegrades ==
  CacheAllocFailed =>
    /\ cache.setPixels = {} /\ cache.writes = 0
    /\ pc \in {"Decoding", "Returned"}
    /\ pc = "Returned" =>
         (jpeg.decodeRc # "none" /\ (result = "true" <=> jpeg.decodeRc = "ok"))
    /\ \A i \in 0..(nextBlock - 1) :
         \E g \in GarbageValues : SinkOfBlock(i) = WritesWithCaching(i, g)

DecodedWithoutCache ==
  CacheAllocFailed /\ pc = "Returned" /\ result = "true" /\ sink # {}

\* C6: a source reporting a non-positive width or height, or dimensions that
\* validateImageDimensions rejects, makes the call return false before any
\* configuration step (scale decision, pixel type, user pointer, cache
\* allocation, decode), the engine closed before the return.
RejectedDimensions ==
  image.width <= 0 \/ image.height <= 0
    \/ ~ValidateImageDimensions(image.width, image.height)

InvalidDimensionsAbortBeforeConfig ==
  (jpeg.opened /\ RejectedDimensions) =>
    /\ pc \in {"Opened", "Returned"}
    /\ ~ScaleDecided /\ jpeg.pixelType = "default" /\ ~jpeg.userPointer
    /\ cache.allocCalls = 0 /\ jpeg.decodeRc = "none" /\ sink = {} /\ nextBlock = 0
    /\ pc = "Returned" =>
         (result = "false" /\ jpeg.closes = 1 /\ ~jpeg.open /\ ~jpeg.live /\ ~file.live)

ZeroHeightRejected ==
  pc = "Returned" /\ jpeg.opened /\ image.height = 0 /\ image.width > 0

\* C7: for a non-progressive source chooseJpegScale maps the target scale
\* t = num/den to 8 for t <= 1/8, to 4 for 1/8 < t <= 1/4, to 2 for
\* 1/4 < t <= 1/2 and to 1 above (0.125 -> 8, 0.1251 -> 4, 0.25 -> 4,
\* 0.2501 -> 2, 0.5 -> 2, 0.5001 -> 1), and the option it sets is the one of
\* the denominator it returns.
ExpectedDenominator(n, d) ==
  IF 8 * n <= d THEN 8 ELSE IF 4 * n <= d THEN 4 ELSE IF 2 * n <= d THEN 2 ELSE 1

ScaleExample(n, denom) ==
  scaleIn = [num |-> n, den |-> 10000] => scaleOut.denom = denom

ThresholdsInclusiveLow ==
  pc = "ScaleChosen" =>
    /\ scaleOut.denom = ExpectedDenominator(scaleIn.num, scaleIn.den)
    /\ OptionDenominator(scaleOut.option) = scaleOut.denom
    /\ scaleOut.option \in {JPEG_SCALE_EIGHTH, JPEG_SCALE_QUARTER, JPEG_SCALE_HALF,
                            JPEG_SCALE_NONE}
    /\ ScaleExample(1250, 8) /\ ScaleExample(1251, 4) /\ ScaleExample(2500, 4)
    /\ ScaleExample(2501, 2) /\ ScaleExample(5000, 2) /\ ScaleExample(5001, 1)

QuarterAtBoundary ==
  pc = "ScaleChosen" /\ scaleIn = [num |-> 2500, den |-> 10000] /\ scaleOut.denom = 4

\* C8: for a progressive source the coarse denominator is 8 and the option
\* JPEG_SCALE_EIGHTH whatever the target scale and the RenderConfig, and the
\* scaled source is ceil(srcWidth / 8) by ceil(srcHeight / 8).
IsCeilOfEighth(q, n) == 8 * (q - 1) < n /\ n <= 8 * q

ProgressiveForcesEighth ==
  (image.progressive /\ ScaleDecided) =>
    /\ jpegScale.denom = 8 /\ jpegScale.option = JPEG_SCALE_EIGHTH
    /\ IsCeilOfEighth(ctx.scaledSrcWidth, image.width)
    /\ IsCeilOfEighth(ctx.scaledSrcHeight, image.height)

ProgressiveOverridesThreshold ==
  /\ image.progressive /\ ScaleDecided /\ image.width = 17
  /\ ChooseJpegScale(TargetScale(config, image.width, image.height)).denom = 1
  /\ ctx.scaledSrcWidth = 3 /\ ctx.scaledSrcHeight = 2

\* C9 (as claimed): in fit mode the target scale is the smaller of the
\* per-axis shrink ratios, at most 1, and the destination is
\* floor(srcWidth * scale) by floor(srcHeight * scale), within the source and
\* within every positive bound.
RatioX == IF config.maxWidth > 0 /\ image.width > config.maxWidth
          THEN <<config.maxWidth, image.width>> ELSE <<1, 1>>
RatioY == IF config.maxHeight > 0 /\ image.height > config.maxHeight
          THEN <<config.maxHeight, image.height>> ELSE <<1, 1>>
\* the smaller of the two ratios, as a fraction <<numerator, denominator>>
FitRatio == IF RatioX[1] * RatioY[2] < RatioY[1] * RatioX[2] THEN RatioX ELSE RatioY
FloorOfScaled(n) == (n * FitRatio[1]) \div FitRatio[2]

FitMode == ~(config.useExactDimensions /\ config.maxWidth > 0 /\ config.maxHeight > 0)

DestinationWithinBounds ==
  /\ ctx.dstWidth >= 0 /\ ctx.dstHeight >= 0
  /\ ctx.dstWidth <= image.width /\ ctx.dstHeight <= image.height
  /\ config.maxWidth > 0 => ctx.dstWidth <= config.maxWidth
  /\ config.maxHeight > 0 => ctx.dstHeight <= config.maxHeight

FitDestinationIsFloor ==
  (FitMode /\ ScaleDecided) =>
    /\ FitRatio[1] <= FitRatio[2]
    /\ ctx.dstWidth = FloorOfScaled(image.width)
    /\ ctx.dstHeight = FloorOfScaled(image.height)
    /\ DestinationWithinBounds

\* C9 (amended): in fit mode the destination is the truncated single-precision
\* product (int)(src * scale), scale the float nearest to the smaller of the
\* per-axis shrink ratios and at most 1: on each axis it is floor(src * ratio)
\* or one less, within the source and within every positive bound.
FitDestinationTruncatedFloat ==
  (FitMode /\ ScaleDecided) =>
    /\ FitRatio[1] <= FitRatio[2]
    /\ ctx.dstWidth \in {FloorOfScaled(image.width) - 1, FloorOfScaled(image.width)}
    /\ ctx.dstHeight \in {FloorOfScaled(image.height) - 1, FloorOfScaled(image.height)}
    /\ DestinationWithinBounds

FitRoundedBelowFloor ==
  /\ FitMode /\ ScaleDecided /\ pc = "Scaled"
  /\ image.width = 37 /\ config.maxWidth = 3 /\ ctx.dstWidth = 2

\* C10 (as claimed): a progressive source decoded with useExactDimensions and
\* maxWidth = maxHeight = ExactBox has denominator 8, a scaled source of
\* ceil(src / 8) on each axis and an ExactBox x ExactBox destination, and its
\* block callbacks select the bilinear path whenever the scaled source is
\* smaller than ExactBox in width or in height.
ProgressiveExact ==
  /\ image.progressive /\ ScaleDecided
  /\ config.useExactDimensions
  /\ config.maxWidth = ExactBox /\ config.maxHeight = ExactBox

ProgressiveExactGeometry ==
  /\ jpegScale.denom = 8 /\ jpegScale.option = JPEG_SCALE_EIGHTH
  /\ IsCeilOfEighth(ctx.scaledSrcWidth, image.width)
  /\ IsCeilOfEighth(ctx.scaledSrcHeight, image.height)
  /\ ctx.dstWidth = ExactBox /\ ctx.dstHeight = ExactBox

BilinearWhenSmallerOnAnAxis ==
  ProgressiveExact =>
    /\ ProgressiveExactGeometry
    /\ (paths # {} /\ (ctx.scaledSrcWidth < ExactBox \/ ctx.scaledSrcHeight < ExactBox))
         => paths = {"bilinear"}

\* C10 (amended): the same geometry, and the block callbacks select the
\* bilinear path exactly when the scaled-source width is smaller than
\* ExactBox: the factor comes from the width alone, a scaled source ExactBox
\* wide takes the identity path and a wider one nearest-neighbour, whatever
\* its height.
BilinearWhenNarrower ==
  ProgressiveExact =>
    /\ ProgressiveExactGeometry
    /\ paths # {} =>
         /\ ctx.scaledSrcWidth < ExactBox => paths = {"bilinear"}
         /\ ctx.scaledSrcWidth = ExactBox => paths = {"identity"}
         /\ ctx.scaledSrcWidth > ExactBox => paths = {"nearest"}

BilinearForNarrowSource ==
  /\ ProgressiveExact /\ paths = {"bilinear"}
  /\ ctx.scaledSrcWidth = ExactBox - 1 /\ ctx.scaledSrcHeight > ExactBox

\* the block of a sink entry and the block-local offset of the pixel it drew
BlockOf(p) == BlockAt(EngineWidth, EngineHeight, p[4])
LocalX(p) == p[1] - config.x - BlockOf(p).x
LocalY(p) == p[2] - config.y - BlockOf(p).y

\* C11: on the identity path (fineScaleFP = FP_ONE) with dithering disabled,
\* every pixel a block callback draws has its block-local offset inside the
\* valid columns [0, validW - 1] and rows [0, blockH - 1] of the block, and
\* receives the level min(floor(s / 85), 3) in 0..3 of the one sample s at
\* that offset.
IdentityDrawsOwnSample ==
  (ScaleDecided /\ PathOf(ctx.fineScaleFP) = "identity" /\ ~config.useDithering) =>
    \A p \in sink :
      /\ LocalX(p) \in 0..(BlockOf(p).iWidthUsed - 1)
      /\ LocalY(p) \in 0..(BlockOf(p).iHeight - 1)
      /\ p[3] \in 0..3
      /\ p[3] = Min(Sample(image.seed, p[1] - config.x, p[2] - config.y) \div 85, 3)

\* the destination pixels of the i-th block delivered
DstOfBlock(i) == BlockDst(ctx, config, BlockAt(EngineWidth, EngineHeight, i))
OnePerPixel(S) == \A p, q \in S : (p[1] = q[1] /\ p[2] = q[2]) => p = q

\* C12: within one decode call, the blocks tiling the scaled source and
\* delivered top to bottom, every destination pixel is written to the sink,
\* and to the cache when caching, at most once: two blocks never cover the
\* same destination pixel, their row ranges being disjoint when one is below
\* the other and their column ranges when they are side by side.
EachPixelWrittenOnce ==
  /\ OnePerPixel(sink)
  /\ OnePerPixel(cache.setPixels)
  /\ \A i, j \in 0..(nextBlock - 1) : i < j => DstOfBlock(i) \cap DstOfBlock(j) = {}

FourBlocksDrawn ==
  /\ pc = "Returned" /\ result = "true" /\ ctx.caching /\ nextBlock = 4
  /\ ctx.fineScaleFP \notin {0, FP_ONE}
  /\ \A i \in 0..3 : SinkOfBlock(i) # {}
  /\ cache.setPixels = sink

\* C13: every pixel a block callback draws or caches lies inside the visible
\* screen, 0 <= outX < screenWidth and 0 <= outY < screenHeight, and inside
\* the destination rectangle, cfgX <= outX < cfgX + dstWidth and
\* cfgY <= outY < cfgY + dstHeight, for every origin, block and factor.
DrawnInsideScreenAndDestination ==
  \A p \in sink \cup cache.setPixels :
    /\ 0 <= p[1] /\ p[1] < ctx.screenWidth
    /\ 0 <= p[2] /\ p[2] < ctx.screenHeight
    /\ config.x <= p[1] /\ p[1] < config.x + ctx.dstWidth
    /\ config.y <= p[2] /\ p[2] < config.y + ctx.dstHeight

ClippedAtBothEdges ==
  /\ pc = "Returned" /\ result = "true"
  /\ config.x > 0 /\ config.y < 0
  /\ config.x + ctx.dstWidth > ctx.screenWidth
  /\ \E p \in sink : p[1] = ctx.screenWidth - 1 /\ p[2] = 0
  /\ cache.setPixels = sink

\* the blocks delivered so far whose callback reached the pixel loops
DrawnBlocks ==
  { i \in 0..(nextBlock - 1) :
      ~BlockSkipped(ctx, config, BlockAt(EngineWidth, EngineHeight, i)) }

\* C14: on the bilinear path, for every block and every destination x of the
\* safe interior range [safeXStart, safeXEnd), the two columns read without a
\* clamp, lx0 = floor(x * invScaleFP / 2^16) - blockX and lx0 + 1, lie within
\* [0, validW - 1].
SafeInteriorInBounds ==
  (ScaleDecided /\ PathOf(ctx.fineScaleFP) = "bilinear") =>
    \A i \in DrawnBlocks :
      LET blk  == BlockAt(EngineWidth, EngineHeight, i)
          safe == SafeX(ctx, config, blk)
      IN \A x \in safe.start..(safe.end - 1) :
           LET lx0 == ((x * ctx.invScaleFP) \div FP_ONE) - blk.x
           IN 0 <= lx0 /\ lx0 + 1 <= blk.iWidthUsed - 1

ColumnByInverse(d) == (d * ctx.invScaleFP) \div FP_ONE
ColumnExact(d) == (d * ctx.scaledSrcWidth) \div ctx.dstWidth

\* C16: the forward factor is floor(dstWidth * 2^16 / scaledSrcWidth) and the
\* inverse factor floor(scaledSrcWidth * 2^16 / dstWidth), each the quotient
\* of its own integer division, and for every destination column d in
\* [0, dstWidth) the source column floor(d * invScaleFP / 2^16) is within one
\* sample of the exact floor(d * scaledSrcWidth / dstWidth).
DriftWithinOneSample ==
  (ScaleDecided /\ ctx.dstWidth > 0) =>
    /\ ctx.fineScaleFP = (ctx.dstWidth * 65536) \div ctx.scaledSrcWidth
    /\ ctx.invScaleFP = (ctx.scaledSrcWidth * 65536) \div ctx.dstWidth
    /\ \A d \in 0..(ctx.dstWidth - 1) :
         /\ ColumnByInverse(d) - ColumnExact(d) <= 1
         /\ ColumnExact(d) - ColumnByInverse(d) <= 1

DriftOfOneSample ==
  /\ ScaleDecided /\ ctx.dstWidth > 0
  /\ (ctx.scaledSrcWidth * 65536) % ctx.dstWidth # 0
  /\ \E d \in 0..(ctx.dstWidth - 1) : ColumnByInverse(d) = ColumnExact(d) - 1

\* C17: after any sequence of jpegRead and jpegSeek callbacks on an open file,
\* short reads, failed reads and failed seeks included, the engine's tracker
\* pFile->iPos equals the position of the underlying file.
TrackerMatchesFilePosition ==
  pFile.fHandle => pFile.iPos = fsPos

\* C18: for every source whose dimensions pass validation and every
\* RenderConfig, the destination width and the scaled-source width computed
\* by decodeToFramebuffer are strictly positive, so that neither division for
\* fineScaleFP and invScaleFP divides by zero.
ScaleDivisorsPositive ==
  (ScaleDecided /\ ~RejectedDimensions) =>
    /\ ctx.scaledSrcWidth > 0
    /\ ctx.dstWidth > 0
    /\ pc # "Crashed"

\* the page changes of a call history: the page and time last recorded and the
\* number of changes whose interval since the page recorded before them was
\* within [800 ms, 600000 ms]
RECURSIVE Replay(_, _, _)
Replay(h, rec, count) ==
  IF h = << >> THEN [rec |-> rec, count |-> count]
  ELSE LET ev == Head(h)
           interval == Sub32(ev.nowMs, rec.nowMs)
           within == ~Less32(interval, 800) /\ ~Greater32(interval, 600000)
       IN IF ev.op = "reset" THEN Replay(Tail(h), [op |-> "none"], 0)
          ELSE IF rec.op = "none" THEN Replay(Tail(h), ev, count)
          ELSE IF ev.sectionIndex = rec.sectionIndex /\ ev.pageIndex = rec.pageIndex
               THEN Replay(Tail(h), rec, count)
          ELSE Replay(Tail(h), ev, IF within THEN count + 1 ELSE count)

Recorded(h) == Replay(h, [op |-> "none"], 0)

\* C19: after construction or reset() and any sequence of onPageRendered
\* calls, estimateMinutesToEnd(n) returns 0 for n <= 0 and, for n > 0, -1
\* unless at least two page changes were recorded whose interval since the
\* previously recorded page was within [800 ms, 600000 ms]; the first render
\* and the page changes with an interval out of that range update the current
\* page and timestamp and do not count.
ColdStartUntilTwoValidTurns ==
  /\ etaOut.at >= 0 =>
       LET turns == Recorded(SubSeq(history, 1, etaOut.at)).count
       IN /\ etaOut.remainingPages <= 0 => etaOut.minutes = 0
          /\ (etaOut.remainingPages > 0 /\ turns < 2) => etaOut.minutes = -1
          /\ (etaOut.remainingPages > 0 /\ turns >= 2) => etaOut.minutes >= 1
  /\ LET r == Recorded(history)
     IN /\ est.validTurnCount = r.count
        /\ est.hasCurrentPageKey = (r.rec.op = "render")
        /\ r.rec.op = "render" =>
             /\ est.currentSectionIndex = r.rec.sectionIndex
             /\ est.currentPageIndex = r.rec.pageIndex
             /\ est.lastPageTimestampMs = r.rec.nowMs

ColdAfterOneValidTurn ==
  /\ etaOut.remainingPages > 0 /\ etaOut.minutes = -1 /\ etaOut.at = 3
  /\ history = SubSeq(history, 1, 3)
  /\ \A i \in 1..3 : history[i].op = "render"
  /\ history[1].pageIndex # history[2].pageIndex
  /\ history[2].sectionIndex # history[3].sectionIndex
  /\ est.emaInitialized /\ est.validTurnCount = 1
  /\ est.lastPageTimestampMs = history[3].nowMs
  /\ est.lastPageTimestampMs.hi < history[1].nowMs.hi


\* C20: onExit deletes the display task only while it holds renderingMutex,
\* the display task is inside render() only while it holds renderingMutex,
\* and so the task is never deleted while it is inside render().
TaskNeverDeletedInRender ==
  /\ mainPc.at = "ExitDelete" => renderingMutex = "main"
  /\ InRender => renderingMutex = "display"
  /\ screenLog.deletedAt \notin {"Render", "RenderSelection", "RenderItem", "RenderFlush", "Give"}

\* onExit had to wait for a render in progress, and then deleted the task
DeletedAfterWaitingForRender ==
  /\ mainPc.at = "Exited"
  /\ taskPc = "Deleted"
  /\ screenLog.renderedWhileExitWaits
  /\ screenLog.deletedAt # "none"


\* C21: in every interleaving of the display task with handleInput on the
\* main task, render() never reads the file list or selectorIndex while
\* loadFiles has cleared the list and not yet finished refilling it.
RenderNeverReadsMidLoad ==
  ~screenLog.readDuringLoad


\* C22: after any sequence of input events over any directory contents,
\* selectorIndex is a valid index into files whenever files is non-empty, and
\* no previous/next step computes a remainder modulo files.size() on an empty
\* list.
SelectorIndexValidAndNoModZero ==
  /\ (mainPc.at = "Idle" /\ files # << >>) => selectorIndex \in 0..(Len(files) - 1)
  /\ ~screenLog.modZero

====
